---- MODULE Spec2Model ----
(***************************************************************************)
(* Preprocessing of Speakez/Speakez-Bridging-Header.h inside one           *)
(* translation unit.  The header is an include guard around two #include   *)
(* directives.  The model executes the header directive by directive, the  *)
(* way a C preprocessor does, in an environment that fixes what "ggml.h"   *)
(* and "whisper.h" resolve to on the include path.                         *)
(***************************************************************************)
EXTENDS Naturals, FiniteSets

\* ---- bounds ----
MaxInclusions == 3   \* #include "Speakez-Bridging-Header.h" per translation unit
MaxVersion    == 2   \* releases of the external library a header may come from
MaxTUDecls    == 2   \* declarations the translation unit makes on its own

\* ---- the text of the header ----
Guard   == "Speakez_Bridging_Header_h"
Headers == {"ggml.h", "whisper.h"}
NoArg   == ""

\* The directive on each line of the header (every other line is blank or a comment).
Directive_swapped(l) ==
  CASE l = 8  -> [op |-> "ifndef",  arg |-> Guard]
    [] l = 9  -> [op |-> "define",  arg |-> Guard]
    [] l = 12 -> [op |-> "include", arg |-> "whisper.h"]
    [] l = 15 -> [op |-> "include", arg |-> "ggml.h"]
    [] l = 17 -> [op |-> "endif",   arg |-> NoArg]

Directive_noWhisper(l) ==
  CASE l = 8  -> [op |-> "ifndef",  arg |-> Guard]
    [] l = 9  -> [op |-> "define",  arg |-> Guard]
    [] l = 12 -> [op |-> "include", arg |-> "ggml.h"]
    [] l = 15 -> [op |-> "include", arg |-> "ggml.h"]
    [] l = 17 -> [op |-> "endif",   arg |-> NoArg]

Directive_noGgml(l) ==
  CASE l = 8  -> [op |-> "ifndef",  arg |-> Guard]
    [] l = 9  -> [op |-> "define",  arg |-> Guard]
    [] l = 12 -> [op |-> "include", arg |-> "whisper.h"]
    [] l = 15 -> [op |-> "include", arg |-> "whisper.h"]
    [] l = 17 -> [op |-> "endif",   arg |-> NoArg]

Directive_guardTypo(l) ==
  CASE l = 8  -> [op |-> "ifndef",  arg |-> Guard]
    [] l = 9  -> [op |-> "define",  arg |-> "Speakez_Bridging_Header"]
    [] l = 12 -> [op |-> "include", arg |-> "ggml.h"]
    [] l = 15 -> [op |-> "include", arg |-> "whisper.h"]
    [] l = 17 -> [op |-> "endif",   arg |-> NoArg]

Directive_guardTest(l) ==
  CASE l = 8  -> [op |-> "ifndef",  arg |-> "Speakez_Bridging_Header"]
    [] l = 9  -> [op |-> "define",  arg |-> Guard]
    [] l = 12 -> [op |-> "include", arg |-> "ggml.h"]
    [] l = 15 -> [op |-> "include", arg |-> "whisper.h"]
    [] l = 17 -> [op |-> "endif",   arg |-> NoArg]

Directive(l) ==
  CASE l = 8  -> [op |-> "ifndef",  arg |-> Guard]
    [] l = 9  -> [op |-> "define",  arg |-> Guard]
    [] l = 12 -> [op |-> "include", arg |-> "ggml.h"]
    [] l = 15 -> [op |-> "include", arg |-> "whisper.h"]
    [] l = 17 -> [op |-> "endif",   arg |-> NoArg]

Lines == {8, 9, 12, 15, 17}
InTU  == 0            \* pc value: outside the header, in the including file

\* The directive line that follows line l; after the last one control
\* returns to the including file.
Succ(l) ==
  IF \E m \in Lines : m > l
    THEN CHOOSE m \in Lines : m > l /\ \A k \in Lines : k > l => k >= m
    ELSE InTU

\* The #endif that closes the #ifndef on line l (the header has one conditional).
MatchingEndif(l) ==
  CHOOSE m \in Lines : m > l /\ Directive(m).op = "endif"

VARIABLES
  found,       \* found[h]: release of the file "h" on the include path, 0 = no such file
  pc,          \* line of the header about to be processed, InTU outside it
  macros,      \* macro names defined in the translation unit
  visible,     \* interfaces whose declarations are visible
  pulls,       \* pulls[h]: times h was included through the bridging header
  inclusions,  \* times the bridging header was included
  tuDecls,     \* the including file's own declarations
  diagnosed,   \* an error diagnostic was issued
  status       \* "compiling", "failed" or "built"

vars == <<found, pc, macros, visible, pulls, inclusions, tuDecls, diagnosed, status>>

Missing == 0

Init ==
  /\ found \in [Headers -> 0..MaxVersion]
  /\ pc = InTU
  /\ macros = {}
  /\ visible = {}
  /\ pulls = [h \in Headers |-> 0]
  /\ inclusions = 0
  /\ tuDecls = {}
  /\ diagnosed = FALSE
  /\ status = "compiling"

Running == status = "compiling"

\* Declarations of h clash with an interface of another release already in scope.
Conflicts(h) == \E o \in visible \ {h} : found[o] # found[h]

\* ---- the including file ----
IncludeBridgingHeader ==
  /\ Running /\ pc = InTU
  /\ inclusions < MaxInclusions
  /\ inclusions' = inclusions + 1
  /\ pc' = 8
  /\ UNCHANGED <<found, macros, visible, pulls, tuDecls, diagnosed, status>>

TUDeclare ==
  /\ Running /\ pc = InTU
  /\ \E d \in (1..MaxTUDecls) \ tuDecls : tuDecls' = tuDecls \cup {d}
  /\ UNCHANGED <<found, pc, macros, visible, pulls, inclusions, diagnosed, status>>

EndOfTU ==
  /\ Running /\ pc = InTU
  /\ status' = IF diagnosed THEN "failed" ELSE "built"
  /\ UNCHANGED <<found, pc, macros, visible, pulls, inclusions, tuDecls, diagnosed>>

\* ---- the header, one directive at a time ----
Ifndef ==
  /\ Running /\ pc \in Lines /\ Directive(pc).op = "ifndef"
  /\ pc' = IF Directive(pc).arg \notin macros THEN Succ(pc) ELSE MatchingEndif(pc)
  /\ UNCHANGED <<found, macros, visible, pulls, inclusions, tuDecls, diagnosed, status>>

Define ==
  /\ Running /\ pc \in Lines /\ Directive(pc).op = "define"
  /\ macros' = macros \cup {Directive(pc).arg}
  /\ pc' = Succ(pc)
  /\ UNCHANGED <<found, visible, pulls, inclusions, tuDecls, diagnosed, status>>

Include ==
  /\ Running /\ pc \in Lines /\ Directive(pc).op = "include"
  /\ LET h == Directive(pc).arg IN
       IF found[h] = Missing
         THEN \* file not found is a fatal error: preprocessing stops here
              /\ status' = "failed"
              /\ diagnosed' = TRUE
              /\ UNCHANGED <<pc, visible, pulls>>
         ELSE /\ visible' = visible \cup {h}
              /\ pulls' = [pulls EXCEPT ![h] = @ + 1]
              /\ diagnosed' = (diagnosed \/ Conflicts(h))
              /\ pc' = Succ(pc)
              /\ UNCHANGED status
  /\ UNCHANGED <<found, macros, inclusions, tuDecls>>

Endif ==
  /\ Running /\ pc \in Lines /\ Directive(pc).op = "endif"
  /\ pc' = Succ(pc)
  /\ UNCHANGED <<found, macros, visible, pulls, inclusions, tuDecls, diagnosed, status>>

Next ==
  \/ IncludeBridgingHeader
  \/ TUDeclare
  \/ EndOfTU
  \/ Ifndef
  \/ Define
  \/ Include
  \/ Endif

Spec == Init /\ [][Next]_vars

TypeOK ==
  /\ found \in [Headers -> 0..MaxVersion]
  /\ pc \in Lines \cup {InTU}
  /\ macros \subseteq {Guard}
  /\ visible \subseteq Headers
  /\ pulls \in [Headers -> 0..MaxInclusions]
  /\ inclusions \in 0..MaxInclusions
  /\ tuDecls \subseteq 1..MaxTUDecls
  /\ diagnosed \in BOOLEAN
  /\ status \in {"compiling", "failed", "built"}

\* ---- vocabulary of the properties ----
Resolvable == \A h \in Headers : found[h] # Missing
Mismatched == Resolvable /\ found["ggml.h"] # found["whisper.h"]
\* Control is back in the including file after at least one inclusion.
Completed  == pc = InTU /\ inclusions >= 1
\* Everything the processing of the header can leave behind.
HeaderEffect == <<macros, visible, pulls, diagnosed>>

\* C1: once a (first or later) processing of the header has ended in a
\* translation unit where both ggml.h and whisper.h resolve, the declarations
\* of both interfaces are visible to the including file.
C1_BothInterfacesVisible ==
  (Resolvable /\ Completed) => visible = Headers

C1_Witness ==
  /\ Resolvable /\ pc = InTU /\ inclusions = 1
  /\ pulls = [h \in Headers |-> 1]
  /\ visible = Headers

\* C2 as stated: the header introduces no name of its own, so after any
\* inclusions the names introduced are exactly those of ggml.h and whisper.h.
C2_NoOwnEntity ==
  /\ macros = {}
  /\ visible \subseteq Headers
  /\ Completed => visible = Headers

\* C2 amended: the only entity the header itself defines is its include-guard
\* macro Speakez_Bridging_Header_h; after any sequence of completed inclusions
\* the names introduced are exactly that macro plus the interfaces of ggml.h
\* and whisper.h, and no line of the header touches the including file's own
\* declarations.
C2_OnlyGuardMacro ==
  /\ [](/\ macros \subseteq {Guard}
        /\ visible \subseteq Headers
        /\ Completed => (macros = {Guard} /\ visible = Headers))
  /\ [][pc # InTU => tuDecls' = tuDecls]_vars

C2_Witness ==
  /\ Completed /\ tuDecls # {}
  /\ macros = {Guard} /\ visible = Headers

C4_GgmlBeforeWhisper ==
  /\ "whisper.h" \in visible => "ggml.h" \in visible
  /\ pulls["whisper.h"] <= pulls["ggml.h"]

C4_Witness ==
  /\ "whisper.h" \in visible
  /\ pulls["whisper.h"] = 1
  /\ pc = 17 /\ inclusions = 1

\* C5: the second and every later inclusion skips the #define and both
\* #include directives and leaves everything the header can affect as the
\* first inclusion left it; each of ggml.h and whisper.h is pulled in through
\* the header at most once.
C5_Idempotent ==
  /\ [](\A h \in Headers : pulls[h] <= 1)
  /\ [][inclusions' >= 2 =>
          /\ HeaderEffect' = HeaderEffect
          /\ pc' \in {InTU, 8, 17}]_vars

C5_Witness ==
  /\ inclusions >= 2 /\ pc = InTU /\ status = "compiling"
  /\ macros = {Guard}
  /\ \A h \in Headers : pulls[h] = 1

====
